---- MODULE Spec2Model ----
(***************************************************************************)
(* Model of the two computations of examples/notebooks/                    *)
(* statespace_sarimax_faq.ipynb:                                           *)
(*   - the boundary of the unreliable initial residuals of an ARIMA with   *)
(*     orders (p,d,q)x(P,D,Q,s):  max((P+D)s+p+d, Qs+q);                   *)
(*   - the long-run mean of the table cell: params[0] for the AR(0) and    *)
(*     ARIMA columns, params[0] / (1 - params[1]) for the SARIMAX and      *)
(*     AutoReg columns.                                                    *)
(* Every invocation is evaluated in steps on the operand stack of its own  *)
(* frame; callers 1..NCallers may interleave their steps.  Real numbers    *)
(* are exact rationals <<n, d>> in lowest terms with d > 0; a division by  *)
(* a zero float64 gives inf or nan as numpy does.                          *)
(***************************************************************************)
EXTENDS Integers, Sequences, FiniteSets, TLC

VARIABLES pc, op, arg, tmp, out

vars == <<pc, op, arg, tmp, out>>

(* ------------------------------ bounds --------------------------------- *)
NCallers == 2
MaxOrder == 2
MaxPeriod == 12
MaxMean == 10
MaxAr == 12

Callers == 1..NCallers

(* --------------------------- rational numbers -------------------------- *)
Abs(x) == IF x < 0 THEN 0 - x ELSE x

RECURSIVE GCD(_, _)
GCD(a, b) == IF b = 0 THEN a ELSE GCD(b, a % b)

Norm(n, d) ==
    LET g == GCD(Abs(n), Abs(d))
        sg == IF d < 0 THEN 0 - 1 ELSE 1
    IN IF g = 0 THEN <<0, 1>> ELSE <<sg * (n \div g), sg * (d \div g)>>

Zero == <<0, 1>>
One == <<1, 1>>

RatSub(x, y) == Norm(x[1] * y[2] - y[1] * x[2], x[2] * y[2])
RatMul(x, y) == Norm(x[1] * y[1], x[2] * y[2])
RatLess(x, y) == x[1] * y[2] < y[1] * x[2]
RatAbs(x) == <<Abs(x[1]), x[2]>>

FloatMul(x, y) == [kind |-> "value", val |-> RatMul(x, y)]

(* float64 / float64: a zero divisor gives nan (0/0) or a signed inf,      *)
(* any other divisor the quotient.                                         *)
FloatDiv(x, y) ==
    IF y[1] = 0
    THEN IF x[1] = 0 THEN [kind |-> "nan"]
         ELSE [kind |-> "inf", sign |-> IF x[1] < 0 THEN 0 - 1 ELSE 1]
    ELSE [kind |-> "value", val |-> Norm(x[1] * y[2], x[2] * y[1])]

(* ------------------------------ inputs --------------------------------- *)
ModelOrderSpec ==
    [p : (0 - 1)..MaxOrder, d : (0 - 1)..MaxOrder, q : (0 - 1)..MaxOrder,
     P : (0 - 1)..MaxOrder, D : (0 - 1)..MaxOrder, Q : (0 - 1)..MaxOrder,
     s : (0 - 1)..MaxPeriod]

Means == {Norm(m, 1) : m \in (0 - MaxMean)..MaxMean}
ArCoefficients == {Norm(k, 10) : k \in (0 - MaxAr)..MaxAr}
Intercepts ==
    Means \cup {RatMul(mu, RatSub(One, rho)) : mu \in Means, rho \in ArCoefficients}

FittedCoefficients ==
    [parameterization : {"DirectMean", "LagOnly"},
     intercept : Intercepts,
     ar_coefficient : ArCoefficients]

(* the two models the notebook fits                                        *)
SeasonalFit == [p |-> 1, d |-> 0, q |-> 0, P |-> 1, D |-> 0, Q |-> 0, s |-> 12]
NonSeasonalFit == [p |-> 1, d |-> 1, q |-> 0, P |-> 0, D |-> 0, Q |-> 0, s |-> 0]

(* what resid[start:stop] selects                                          *)
PySlice(start, stop) == {i \in 0..stop : start <= i /\ i < stop}
SliceStop == 13
SliceEnd == 37
IgnoredCount == 2

(* inputs of the interleaved callers                                       *)
ConcSpecs ==
    {SeasonalFit, NonSeasonalFit,
     [p |-> 0, d |-> 0, q |-> 1, P |-> 0, D |-> 0, Q |-> 1, s |-> 4],
     [p |-> 0 - 1, d |-> 0, q |-> 0, P |-> 0, D |-> 0, Q |-> 0, s |-> 12]}
ConcFitted ==
    {[parameterization |-> "LagOnly", intercept |-> <<2, 1>>, ar_coefficient |-> <<4, 5>>],
     [parameterization |-> "DirectMean", intercept |-> <<10, 1>>, ar_coefficient |-> <<4, 5>>],
     [parameterization |-> "LagOnly", intercept |-> <<2, 1>>, ar_coefficient |-> <<1, 1>>],
     [parameterization |-> "LagOnly", intercept |-> <<1, 1>>, ar_coefficient |-> <<0 - 6, 5>>]}

NoArg == [none |-> TRUE]
NoOut == [kind |-> "none"]
NoTmp == <<0, 0>>

(* --------------------------- boundary formula -------------------------- *)
Min(a, b) == IF a >= b THEN b ELSE a

Max(a, b) == IF a >= b THEN a ELSE b

ARTermNoDiff(m) == m.P * m.s + m.p + m.d

ARTermFullPeriod(m) == Max(m.P + m.D, 1) * m.s + m.p + m.d

ARTerm(m) == (m.P + m.D) * m.s + m.p + m.d

MATermSignSlip(m) == m.Q * m.s - m.q

MATerm(m) == m.Q * m.s + m.q

ValidOrdersOnly(m) ==
    /\ m.p >= 0 /\ m.d >= 0 /\ m.q >= 0
    /\ m.P >= 0 /\ m.D >= 0 /\ m.Q >= 0

ValidSpec(m) ==
    /\ m.p >= 0 /\ m.d >= 0 /\ m.q >= 0
    /\ m.P >= 0 /\ m.D >= 0 /\ m.Q >= 0
    /\ m.s >= 0

(* a valid spec: max of the two terms, computed big-step                   *)
ReliableResidualBoundary(m) ==
    IF ValidSpec(m)
    THEN [kind |-> "value", val |-> Max(ARTerm(m), MATerm(m))]
    ELSE [kind |-> "InvalidSpec"]

(* ----------------------------- long-run mean --------------------------- *)
(* the SARIMAX and AutoReg columns divide, the AR(0) and ARIMA ones do not *)
DividesAlways(f) == TRUE

DividesByLag(f) == f.parameterization = "LagOnly"

DenominatorPlus(f) == Norm(f.ar_coefficient[2] + f.ar_coefficient[1], f.ar_coefficient[2])

LagOnlyDenominator(f) == RatSub(One, f.ar_coefficient)

LongRunMeanCalculator(f) ==
    IF DividesByLag(f)
    THEN FloatDiv(f.intercept, LagOnlyDenominator(f))
    ELSE [kind |-> "value", val |-> f.intercept]

(* the outcome of one invocation run on its own                            *)
RunAlone(o, a) ==
    IF o = "boundary" THEN ReliableResidualBoundary(a) ELSE LongRunMeanCalculator(a)

(* the operand stack of caller c's frame                                   *)
SharedFrame(c) == 1

Frame(c) == c

(* ------------------------------ actions -------------------------------- *)
Init ==
    /\ pc = [c \in Callers |-> "idle"]
    /\ op = [c \in Callers |-> "none"]
    /\ arg = [c \in Callers |-> NoArg]
    /\ tmp = [c \in Callers |-> NoTmp]
    /\ out = [c \in Callers |-> NoOut]

CallBoundary(c, inputs) ==
    /\ pc[c] = "idle"
    /\ pc' = [pc EXCEPT ![c] = "validate"]
    /\ op' = [op EXCEPT ![c] = "boundary"]
    /\ \E m \in inputs : arg' = [arg EXCEPT ![c] = m]
    /\ UNCHANGED <<tmp, out>>

Validate(c) ==
    /\ pc[c] = "validate"
    /\ IF ValidSpec(arg[c])
       THEN /\ pc' = [pc EXCEPT ![c] = "terms"]
            /\ out' = out
       ELSE /\ pc' = [pc EXCEPT ![c] = "done"]
            /\ out' = [out EXCEPT ![c] = [kind |-> "InvalidSpec"]]
    /\ UNCHANGED <<op, arg, tmp>>

ComputeTerms(c) ==
    /\ pc[c] = "terms"
    /\ tmp' = [tmp EXCEPT ![Frame(c)] = <<ARTerm(arg[c]), MATerm(arg[c])>>]
    /\ pc' = [pc EXCEPT ![c] = "max"]
    /\ UNCHANGED <<op, arg, out>>

TakeMax(c) ==
    /\ pc[c] = "max"
    /\ out' = [out EXCEPT ![c] =
                 [kind |-> "value", val |-> Max(tmp[Frame(c)][1], tmp[Frame(c)][2])]]
    /\ pc' = [pc EXCEPT ![c] = "done"]
    /\ UNCHANGED <<op, arg, tmp>>

CallLongRun(c, inputs) ==
    /\ pc[c] = "idle"
    /\ pc' = [pc EXCEPT ![c] = "dispatch"]
    /\ op' = [op EXCEPT ![c] = "longrun"]
    /\ \E f \in inputs : arg' = [arg EXCEPT ![c] = f]
    /\ UNCHANGED <<tmp, out>>

Dispatch(c) ==
    /\ pc[c] = "dispatch"
    /\ IF DividesByLag(arg[c])
       THEN /\ out' = out
            /\ pc' = [pc EXCEPT ![c] = "denominator"]
       ELSE /\ out' = [out EXCEPT ![c] = [kind |-> "value", val |-> arg[c].intercept]]
            /\ pc' = [pc EXCEPT ![c] = "done"]
    /\ UNCHANGED <<op, arg, tmp>>

Denominator(c) ==
    /\ pc[c] = "denominator"
    /\ tmp' = [tmp EXCEPT ![Frame(c)] = LagOnlyDenominator(arg[c])]
    /\ pc' = [pc EXCEPT ![c] = "divide"]
    /\ UNCHANGED <<op, arg, out>>

Divide(c) ==
    /\ pc[c] = "divide"
    /\ out' = [out EXCEPT ![c] = FloatDiv(arg[c].intercept, tmp[Frame(c)])]
    /\ pc' = [pc EXCEPT ![c] = "done"]
    /\ UNCHANGED <<op, arg, tmp>>

Return(c) ==
    /\ pc[c] = "done"
    /\ pc' = [pc EXCEPT ![c] = "idle"]
    /\ op' = [op EXCEPT ![c] = "none"]
    /\ arg' = [arg EXCEPT ![c] = NoArg]
    /\ out' = [out EXCEPT ![c] = NoOut]
    /\ tmp' = [tmp EXCEPT ![Frame(c)] = NoTmp]

(* one caller, every input                                                 *)
Next ==
    \/ CallBoundary(1, ModelOrderSpec)
    \/ Validate(1)
    \/ ComputeTerms(1)
    \/ TakeMax(1)
    \/ CallLongRun(1, FittedCoefficients)
    \/ Dispatch(1)
    \/ Denominator(1)
    \/ Divide(1)
    \/ Return(1)

Spec == Init /\ [][Next]_vars

(* any number of callers, interleaved step by step                          *)
NextConc ==
    \E c \in Callers :
        \/ CallBoundary(c, ConcSpecs)
        \/ Validate(c)
        \/ ComputeTerms(c)
        \/ TakeMax(c)
        \/ CallLongRun(c, ConcFitted)
        \/ Dispatch(c)
        \/ Denominator(c)
        \/ Divide(c)
        \/ Return(c)

SpecConc == Init /\ [][NextConc]_vars

(* ------------------------------ properties ----------------------------- *)
Done(c, o) == pc[c] = "done" /\ op[c] = o

Stationary(f) == RatLess(RatAbs(f.ar_coefficient), One)

(* C1: for a spec whose seven components are all non-negative the boundary *)
(* returned is the larger of (P+D)*s+p+d and Q*s+q, and with s = 0 it is   *)
(* the larger of p+d and q whatever P, D and Q are.                        *)
C1_BoundaryFormula ==
    \A c \in Callers :
        (Done(c, "boundary") /\ ValidSpec(arg[c])) =>
            LET m == arg[c]
                a == (m.P + m.D) * m.s + m.p + m.d
                b == m.Q * m.s + m.q
            IN /\ out[c].kind = "value"
               /\ out[c].val >= a /\ out[c].val >= b /\ out[c].val \in {a, b}
               /\ m.s = 0 =>
                    /\ out[c].val >= m.p + m.d /\ out[c].val >= m.q
                    /\ out[c].val \in {m.p + m.d, m.q}

C1_Witness ==
    \E c \in Callers :
        /\ Done(c, "boundary")
        /\ arg[c] = [p |-> 1, d |-> 1, q |-> 0, P |-> 1, D |-> 1, Q |-> 1, s |-> 0]
        /\ out[c] = [kind |-> "value", val |-> 2]

(* C2: a LagOnly input with |ar_coefficient| >= 1 is always answered with  *)
(* NonStationaryCoefficient, never with a quotient.                        *)
C2_NonStationaryReported ==
    \A c \in Callers :
        (Done(c, "longrun") /\ arg[c].parameterization = "LagOnly"
            /\ ~Stationary(arg[c])) =>
            out[c].kind = "NonStationaryCoefficient"

(* C3: a LagOnly input with |ar_coefficient| < 1 is answered with the      *)
(* value m such that m * (1 - ar_coefficient) = intercept, without error;  *)
(* intercept 2.0 and ar_coefficient 0.8 give 10.0.                         *)
C3_LagOnlyQuotient ==
    \A c \in Callers :
        (Done(c, "longrun") /\ arg[c].parameterization = "LagOnly"
            /\ Stationary(arg[c])) =>
            /\ out[c].kind = "value"
            /\ RatMul(out[c].val, <<arg[c].ar_coefficient[2] - arg[c].ar_coefficient[1],
                                    arg[c].ar_coefficient[2]>>) = arg[c].intercept
            /\ (arg[c].intercept = <<2, 1>> /\ arg[c].ar_coefficient = <<4, 5>>) =>
                    out[c].val = <<10, 1>>

C3_Witness ==
    \E c \in Callers :
        /\ Done(c, "longrun")
        /\ arg[c] = [parameterization |-> "LagOnly", intercept |-> <<2, 1>>,
                     ar_coefficient |-> <<4, 5>>]
        /\ out[c] = [kind |-> "value", val |-> <<10, 1>>]

(* C4: a DirectMean input is answered with its intercept unchanged for     *)
(* every ar_coefficient, also when |ar_coefficient| >= 1, and never with   *)
(* NonStationaryCoefficient.                                               *)
C4_DirectMeanUnchanged ==
    \A c \in Callers :
        (Done(c, "longrun") /\ arg[c].parameterization = "DirectMean") =>
            /\ out[c].kind = "value"
            /\ out[c].val = arg[c].intercept

C4_Witness ==
    \E c \in Callers :
        /\ Done(c, "longrun")
        /\ arg[c] = [parameterization |-> "DirectMean", intercept |-> <<10, 1>>,
                     ar_coefficient |-> <<0 - 6, 5>>]
        /\ out[c] = [kind |-> "value", val |-> <<10, 1>>]

(* C5: the boundary computation answers InvalidSpec, with no boundary,     *)
(* exactly when one of p, d, q, P, D, Q, s is negative; every other spec   *)
(* is answered with a boundary.                                            *)
C5_InvalidSpecOnlyFailure ==
    \A c \in Callers :
        Done(c, "boundary") =>
            LET m == arg[c]
                negative == \E x \in {m.p, m.d, m.q, m.P, m.D, m.Q, m.s} : x < 0
            IN /\ negative => out[c] = [kind |-> "InvalidSpec"]
               /\ ~negative => (out[c].kind = "value" /\ out[c].val \in Int)

C5_Witness ==
    \E c \in Callers :
        /\ Done(c, "boundary")
        /\ arg[c] = [p |-> 1, d |-> 0, q |-> 0, P |-> 1, D |-> 0, Q |-> 0, s |-> 0 - 1]
        /\ out[c] = [kind |-> "InvalidSpec"]

(* C6: for the orders (1,0,0)x(1,0,0,12) the boundary is 13, so that the   *)
(* residuals of resid[:13] are all before it and those of resid[13:37] all *)
(* at or after it; for the orders (1,1,0) the boundary is 2, the number of *)
(* residuals the notebook says to ignore.                                  *)
C6_NotebookFits ==
    \A c \in Callers :
        Done(c, "boundary") =>
            /\ arg[c] = SeasonalFit =>
                 /\ out[c] = [kind |-> "value", val |-> SliceStop]
                 /\ \A i \in PySlice(0, SliceStop) : i < out[c].val
                 /\ \A i \in PySlice(SliceStop, SliceEnd) : i >= out[c].val
            /\ arg[c] = NonSeasonalFit =>
                 out[c] = [kind |-> "value", val |-> IgnoredCount]

C6_Witness ==
    \E c \in Callers :
        /\ Done(c, "boundary")
        /\ arg[c] = SeasonalFit
        /\ out[c] = [kind |-> "value", val |-> 13]

(* C7: with |rho| < 1, LagOnly on the intercept mu * (1 - rho) and         *)
(* DirectMean on the intercept mu are both answered with mu; and at        *)
(* ar_coefficient = 0 LagOnly is answered with the intercept, as           *)
(* DirectMean is.                                                          *)
C7_SameQuantity ==
    \A c \in Callers :
        (Done(c, "longrun") /\ Stationary(arg[c])) =>
            LET f == arg[c]
                rho == f.ar_coefficient
            IN /\ \A mu \in Means :
                    /\ (f.parameterization = "LagOnly"
                          /\ f.intercept = RatMul(mu, <<rho[2] - rho[1], rho[2]>>))
                         => out[c] = [kind |-> "value", val |-> mu]
                    /\ (f.parameterization = "DirectMean" /\ f.intercept = mu)
                         => out[c] = [kind |-> "value", val |-> mu]
               /\ rho = Zero => out[c] = [kind |-> "value", val |-> f.intercept]

C7_Witness ==
    \E c \in Callers :
        /\ Done(c, "longrun")
        /\ arg[c] = [parameterization |-> "LagOnly", intercept |-> <<15, 1>>,
                     ar_coefficient |-> <<0 - 1, 2>>]
        /\ out[c] = [kind |-> "value", val |-> <<10, 1>>]

(* C8: a LagOnly input with |ar_coefficient| >= 1 is answered with the     *)
(* NonStationaryCoefficient flag together with the raw intercept.          *)
C8_FlaggedWithIntercept ==
    \A c \in Callers :
        (Done(c, "longrun") /\ arg[c].parameterization = "LagOnly"
            /\ ~Stationary(arg[c])) =>
            /\ out[c].kind = "NonStationaryCoefficient"
            /\ "intercept" \in DOMAIN out[c]
            /\ out[c].intercept = arg[c].intercept

(* C9: under every interleaving an invocation ends with the outcome it has *)
(* when run alone on its input, its input is the same from call to return, *)
(* and a step of one caller changes nothing that belongs to another.       *)
C9_Pure ==
    /\ [](\A c \in Callers : pc[c] = "done" => out[c] = RunAlone(op[c], arg[c]))
    /\ [][\A c \in Callers :
            /\ (pc[c] # "idle" /\ pc'[c] # "idle") => arg'[c] = arg[c]
            /\ pc'[c] = pc[c] =>
                 (op'[c] = op[c] /\ arg'[c] = arg[c] /\ tmp'[c] = tmp[c] /\ out'[c] = out[c])]_vars

C9_Witness ==
    /\ Done(1, "boundary") /\ arg[1] = SeasonalFit
    /\ out[1] = [kind |-> "value", val |-> 13]
    /\ pc[2] = "divide" /\ tmp[2] = <<1, 5>>

(* C10: with p, d, q, P, D, Q all zero the boundary is 0 for every         *)
(* seasonal period s >= 0.                                                 *)
C10_ZeroOrders ==
    \A c \in Callers :
        (Done(c, "boundary")
            /\ \A x \in {arg[c].p, arg[c].d, arg[c].q, arg[c].P, arg[c].D, arg[c].Q} : x = 0
            /\ arg[c].s >= 0) =>
            out[c] = [kind |-> "value", val |-> 0]

C10_Witness ==
    \E c \in Callers :
        /\ Done(c, "boundary")
        /\ arg[c] = [p |-> 0, d |-> 0, q |-> 0, P |-> 0, D |-> 0, Q |-> 0, s |-> 12]
        /\ out[c] = [kind |-> "value", val |-> 0]

(* C11: for a spec whose seven components are all non-negative the         *)
(* boundary is non-negative, is at least the larger of p+d and q, and is   *)
(* not lowered by raising any one of p, d, q, P, D, Q, s by one with the   *)
(* others fixed (hence by raising it by any amount).                       *)
C11_NonNegativeMonotone ==
    \A c \in Callers :
        (Done(c, "boundary") /\ ValidSpec(arg[c])) =>
            LET m == arg[c]
            IN /\ out[c].kind = "value"
               /\ out[c].val >= 0
               /\ out[c].val >= m.p + m.d /\ out[c].val >= m.q
               /\ \A f \in {"p", "d", "q", "P", "D", "Q", "s"} :
                    LET raised == ReliableResidualBoundary([m EXCEPT ![f] = @ + 1])
                    IN raised.kind = "value" /\ raised.val >= out[c].val

C11_Witness ==
    \E c \in Callers :
        /\ Done(c, "boundary")
        /\ arg[c] = [p |-> 1, d |-> 0, q |-> 2, P |-> 1, D |-> 0, Q |-> 1, s |-> 4]
        /\ out[c] = [kind |-> "value", val |-> 6]
        /\ ReliableResidualBoundary([arg[c] EXCEPT !.s = 5]).val = 7
        /\ ReliableResidualBoundary([arg[c] EXCEPT !.P = 2]).val = 9

====
